---- MODULE Spec2Model ----
(***************************************************************************)
(* Model of the perplexity-web-api core:                                   *)
(*   - parse.rs : parse_sse_event, the normaliser of one streamed event    *)
(*   - config.rs: model_preference, the mode/model compatibility table     *)
(*                                                                         *)
(* JSON text is a sequence of symbols.  Punctuation and literals are one   *)
(* symbol each; a word (a run of letters) is one symbol.  The quote        *)
(* character is the symbol "q0"; a quote escaped k times (k backslash      *)
(* levels in front of it) is the symbol "qk".  Serialising a string        *)
(* escapes its content (qk becomes qk+1) and parsing a string literal      *)
(* unescapes it (qk+1 becomes qk), as serde_json does.                     *)
(***************************************************************************)
EXTENDS Naturals, Sequences, FiniteSets, TLC

VARIABLES
    op,          \* which component the caller invokes: "normalize" or "resolve"
    pc,          \* "call" before the invocation, "done" after it returned
    json_str,    \* parse_sse_event's argument
    result,      \* parse_sse_event's return value (Result<SearchEvent>)
    mode,        \* model_preference's first argument (SearchMode)
    model,       \* model_preference's second argument (Option<Model>)
    preference,  \* model_preference's return value (Option<&str>)
    inflight,    \* per thread: the call of parse_sse_event it is executing
    log          \* the calls of parse_sse_event that returned, in return order

vars == <<op, pc, json_str, result, mode, model, preference, inflight, log>>

----------------------------------------------------------------------------
(* Bounds of the model *)

\* longest "text" step array that is enumerated
MaxSteps == 2
\* number of parse_sse_event calls in one run of the call sequence
MaxCalls == 3

----------------------------------------------------------------------------
(* serde_json::Value *)

Quotes == <<"q0", "q1", "q2", "q3", "q4", "q5">>

IsQuote(c) == \E k \in DOMAIN Quotes : Quotes[k] = c

QuoteLevel(c) == CHOOSE k \in DOMAIN Quotes : Quotes[k] = c

NumberLits == {"1", "2", "123"}

Null == [t |-> "null", s |-> <<>>, a |-> <<>>, o |-> <<>>]

Bool(b) == [t |-> "bool", s |-> <<b>>, a |-> <<>>, o |-> <<>>]

Number(n) == [t |-> "num", s |-> <<n>>, a |-> <<>>, o |-> <<>>]

String(c) == [t |-> "str", s |-> c, a |-> <<>>, o |-> <<>>]

Array(xs) == [t |-> "arr", s |-> <<>>, a |-> xs, o |-> <<>>]

Object(m) == [t |-> "obj", s |-> <<>>, a |-> <<>>, o |-> m]

\* Option<T>
None == [some |-> FALSE, v |-> Null]

Some(x) == [some |-> TRUE, v |-> x]

\* Option<String>, Option<&str>
NoneStr == [some |-> FALSE, v |-> <<>>]

SomeStr(c) == [some |-> TRUE, v |-> c]

\* Map<String, Value>
EmptyMap == <<>>

MapInsert(m, k, v) == [x \in (DOMAIN m) \cup {k} |-> IF x = k THEN v ELSE m[x]]

\* Map::get
MapGet(m, k) == IF k \in DOMAIN m THEN Some(m[k]) ELSE None

\* Value::get with a string index: Some only for a member of an object
ValueGet(v, k) == IF v.t = "obj" THEN MapGet(v.o, k) ELSE None

\* Value::as_str
as_str(v) == IF v.t = "str" THEN SomeStr(v.s) ELSE NoneStr

\* Value::as_array
as_array(v) == IF v.t = "arr" THEN [some |-> TRUE, v |-> v.a] ELSE [some |-> FALSE, v |-> <<>>]

----------------------------------------------------------------------------
(* serde_json::from_str *)

Unescape(c) == IF IsQuote(c) /\ QuoteLevel(c) > 1 THEN Quotes[QuoteLevel(c) - 1] ELSE c

Escape(c) == IF IsQuote(c) THEN Quotes[QuoteLevel(c) + 1] ELSE c

UnescapeAll(cs) == [i \in 1..Len(cs) |-> Unescape(cs[i])]

EscapeAll(cs) == [i \in 1..Len(cs) |-> Escape(cs[i])]

ParseFail == [ok |-> FALSE, v |-> Null, next |-> 0]

ParseOk(v, n) == [ok |-> TRUE, v |-> v, next |-> n]

\* position of the quote closing the string literal opened at s[i], 0 if none
ClosingQuote(s, i) ==
    IF \E j \in (i + 1)..Len(s) : s[j] = "q0"
    THEN CHOOSE j \in (i + 1)..Len(s) :
             s[j] = "q0" /\ \A k \in (i + 1)..(j - 1) : s[k] # "q0"
    ELSE 0

\* a string literal at s[i]
ParseString(s, i) ==
    IF i > Len(s) \/ s[i] # "q0" THEN ParseFail
    ELSE LET j == ClosingQuote(s, i)
         IN  IF j = 0 THEN ParseFail
             ELSE ParseOk(String(UnescapeAll(SubSeq(s, i + 1, j - 1))), j + 1)

RECURSIVE ParseValue(_, _), ParseElements(_, _, _), ParseMembers(_, _, _)

\* one JSON value starting at s[i]
ParseValue(s, i) ==
    IF i > Len(s) THEN ParseFail
    ELSE IF s[i] = "null" THEN ParseOk(Null, i + 1)
    ELSE IF s[i] \in {"true", "false"} THEN ParseOk(Bool(s[i]), i + 1)
    ELSE IF s[i] \in NumberLits THEN ParseOk(Number(s[i]), i + 1)
    ELSE IF s[i] = "q0" THEN ParseString(s, i)
    ELSE IF s[i] = "[" THEN
        IF i + 1 <= Len(s) /\ s[i + 1] = "]" THEN ParseOk(Array(<<>>), i + 2)
        ELSE ParseElements(s, i + 1, <<>>)
    ELSE IF s[i] = "{" THEN
        IF i + 1 <= Len(s) /\ s[i + 1] = "}" THEN ParseOk(Object(EmptyMap), i + 2)
        ELSE ParseMembers(s, i + 1, EmptyMap)
    ELSE ParseFail

\* the elements of an array from s[i] on, after those in acc
ParseElements(s, i, acc) ==
    LET r == ParseValue(s, i)
    IN  IF ~r.ok \/ r.next > Len(s) THEN ParseFail
        ELSE IF s[r.next] = "," THEN ParseElements(s, r.next + 1, Append(acc, r.v))
        ELSE IF s[r.next] = "]" THEN ParseOk(Array(Append(acc, r.v)), r.next + 1)
        ELSE ParseFail

\* the members of an object from s[i] on, after those in acc; a repeated key
\* keeps its last value
ParseMembers(s, i, acc) ==
    LET k == ParseString(s, i)
    IN  IF ~k.ok \/ k.next > Len(s) \/ s[k.next] # ":" THEN ParseFail
        ELSE LET r == ParseValue(s, k.next + 1)
             IN  IF ~r.ok \/ r.next > Len(s) THEN ParseFail
                 ELSE IF s[r.next] = ","
                      THEN ParseMembers(s, r.next + 1, MapInsert(acc, k.v.s, r.v))
                 ELSE IF s[r.next] = "}"
                      THEN ParseOk(Object(MapInsert(acc, k.v.s, r.v)), r.next + 1)
                 ELSE ParseFail

\* serde_json::from_str::<Value>: one value and then the end of the input
from_str_value(s) ==
    LET r == ParseValue(s, 1)
    IN  IF r.ok /\ r.next = Len(s) + 1 THEN [ok |-> TRUE, v |-> r.v]
        ELSE [ok |-> FALSE, v |-> Null]

\* serde_json::from_str::<Map<String, Value>>: deserialize_map accepts an
\* object only; any other value is an invalid-type error
from_str_map(s) ==
    LET r == from_str_value(s)
    IN  IF r.ok /\ r.v.t = "obj" THEN [ok |-> TRUE, v |-> r.v.o]
        ELSE [ok |-> FALSE, v |-> EmptyMap]

----------------------------------------------------------------------------
(* parse.rs *)

Key(w) == <<w>>

\* Keys that are extracted from the raw JSON and stored in dedicated fields
EXTRACTED_KEYS == {Key("answer"), Key("chunks"), Key("backend_uuid"), Key("attachments")}

\* parse_nested_text_field that parses the string but never stores the result
parse_nested_text_field_keeps_string(content) == content

\* If the "text" field is a JSON string, parse it and replace the field with
\* the parsed value
parse_nested_text_field(content) ==
    LET text_value == MapGet(content, Key("text"))
    IN  IF ~text_value.some THEN content
        ELSE LET text_str == as_str(text_value.v)
             IN  IF ~text_str.some THEN content
                 ELSE LET parsed == from_str_value(text_str.v)
                      IN  IF parsed.ok THEN MapInsert(content, Key("text"), parsed.v)
                          ELSE content

\* Extracts a string value from the content map
extract_string(content, key) ==
    LET v == MapGet(content, key)
    IN  IF v.some THEN as_str(v.v) ELSE NoneStr

\* the closure of steps.iter().find(..): step_type is the string FINAL
IsFinalStep(step) ==
    LET st == ValueGet(step, Key("step_type"))
    IN  st.some /\ as_str(st.v) = SomeStr(<<"FINAL">>)

\* FindFinalStep taking the last FINAL step (rfind) instead of the first
FindFinalStep_last(steps) ==
    IF \E i \in 1..Len(steps) : IsFinalStep(steps[i])
    THEN CHOOSE i \in 1..Len(steps) :
             IsFinalStep(steps[i]) /\ \A j \in (i + 1)..Len(steps) : ~IsFinalStep(steps[j])
    ELSE 0

\* Iterator::find: the index of the first FINAL step, 0 if there is none
FindFinalStep(steps) ==
    IF \E i \in 1..Len(steps) : IsFinalStep(steps[i])
    THEN CHOOSE i \in 1..Len(steps) :
             IsFinalStep(steps[i]) /\ \A j \in 1..(i - 1) : ~IsFinalStep(steps[j])
    ELSE 0

NoExtraction == [some |-> FALSE, answer |-> NoneStr, chunks |-> <<>>]

\* the answer and chunks of a parsed answer payload
FromAnswerData(answer_data) ==
    LET a == ValueGet(answer_data, Key("answer"))
        c == ValueGet(answer_data, Key("chunks"))
    IN  [some   |-> TRUE,
         answer |-> IF a.some THEN as_str(a.v) ELSE NoneStr,
         chunks |-> IF c.some /\ as_array(c.v).some THEN as_array(c.v).v ELSE <<>>]

\* extract_from_final_step yielding an empty result, instead of none, when
\* the FINAL step's answer string does not parse
extract_from_final_step_lenient(content) ==
    LET text == MapGet(content, Key("text"))
    IN  IF ~text.some THEN NoExtraction
        ELSE LET steps == as_array(text.v)
                 idx == IF steps.some THEN FindFinalStep(steps.v) ELSE 0
             IN  IF ~steps.some \/ idx = 0 THEN NoExtraction
                 ELSE LET step_content == ValueGet(steps.v[idx], Key("content"))
                          answer_val == IF step_content.some
                                        THEN ValueGet(step_content.v, Key("answer"))
                                        ELSE None
                          answer_str == IF answer_val.some THEN as_str(answer_val.v)
                                        ELSE NoneStr
                      IN  IF ~answer_str.some THEN NoExtraction
                          ELSE IF ~from_str_value(answer_str.v).ok
                               THEN [some |-> TRUE, answer |-> NoneStr, chunks |-> <<>>]
                               ELSE FromAnswerData(from_str_value(answer_str.v).v)

\* Extracts answer and chunks from a FINAL step in the text field
extract_from_final_step(content) ==
    LET text == MapGet(content, Key("text"))
    IN  IF ~text.some THEN NoExtraction
        ELSE LET steps == as_array(text.v)
                 idx == IF steps.some THEN FindFinalStep(steps.v) ELSE 0
             IN  IF ~steps.some \/ idx = 0 THEN NoExtraction
                 ELSE LET step_content == ValueGet(steps.v[idx], Key("content"))
                          answer_val == IF step_content.some
                                        THEN ValueGet(step_content.v, Key("answer"))
                                        ELSE None
                          answer_str == IF answer_val.some THEN as_str(answer_val.v)
                                        ELSE NoneStr
                          answer_data == IF answer_str.some THEN from_str_value(answer_str.v)
                                         ELSE [ok |-> FALSE, v |-> Null]
                      IN  IF ~answer_data.ok THEN NoExtraction
                          ELSE FromAnswerData(answer_data.v)

\* extract_answer_and_chunks merging the two sources: a field the FINAL
\* payload lacks is filled from the top level
extract_answer_and_chunks_merged(content) ==
    LET fin == extract_from_final_step(content)
        c == MapGet(content, Key("chunks"))
        top == [answer |-> extract_string(content, Key("answer")),
                chunks |-> IF c.some /\ as_array(c.v).some THEN as_array(c.v).v ELSE <<>>]
    IN  IF fin.some
        THEN [answer |-> IF fin.answer.some THEN fin.answer ELSE top.answer,
              chunks |-> IF fin.chunks # <<>> THEN fin.chunks ELSE top.chunks]
        ELSE top

\* Extracts answer and chunks from the event content: the FINAL step first,
\* the top-level fields otherwise
extract_answer_and_chunks(content) ==
    LET fin == extract_from_final_step(content)
        c == MapGet(content, Key("chunks"))
    IN  IF fin.some THEN [answer |-> fin.answer, chunks |-> fin.chunks]
        ELSE [answer |-> extract_string(content, Key("answer")),
              chunks |-> IF c.some /\ as_array(c.v).some THEN as_array(c.v).v ELSE <<>>]

\* filter_map(|v| v.as_str()...): the string elements, in order
RECURSIVE FilterStrings(_)
FilterStrings(arr) ==
    IF arr = <<>> THEN <<>>
    ELSE IF as_str(Head(arr)).some
         THEN <<as_str(Head(arr)).v>> \o FilterStrings(Tail(arr))
         ELSE FilterStrings(Tail(arr))

\* extract_string_array collecting into Option<Vec<_>>: one non-string
\* element empties the result
extract_string_array_strict(content, key) ==
    LET v == MapGet(content, key)
    IN  IF v.some /\ as_array(v.v).some
           /\ \A i \in 1..Len(as_array(v.v).v) : as_str(as_array(v.v).v[i]).some
        THEN FilterStrings(as_array(v.v).v)
        ELSE <<>>

\* Extracts an array of strings from the content map
extract_string_array(content, key) ==
    LET v == MapGet(content, key)
    IN  IF v.some /\ as_array(v.v).some THEN FilterStrings(as_array(v.v).v) ELSE <<>>

\* build_raw_map with "attachments" missing from the excluded keys
build_raw_map_keeps_attachments(content) ==
    [k \in (DOMAIN content) \ {Key("answer"), Key("chunks"), Key("backend_uuid")} |-> content[k]]

\* Builds the raw map by excluding extracted keys
build_raw_map(content) == [k \in (DOMAIN content) \ EXTRACTED_KEYS |-> content[k]]

NoEvent ==
    [answer |-> NoneStr, chunks |-> <<>>, backend_uuid |-> NoneStr,
     attachments |-> <<>>, raw |-> EmptyMap]

\* Result<SearchEvent>
Ok(event) == [ok |-> TRUE, event |-> event]

\* Err(Error::Json(..))
ErrJson == [ok |-> FALSE, event |-> NoEvent]

\* parse_sse_event after the top-level parse: the event of a content map
SearchEvent(parsed_content) ==
    LET content == parse_nested_text_field(parsed_content)
        ac == extract_answer_and_chunks(content)
    IN  [answer       |-> ac.answer,
         chunks       |-> ac.chunks,
         backend_uuid |-> extract_string(content, Key("backend_uuid")),
         attachments  |-> extract_string_array(content, Key("attachments")),
         raw          |-> build_raw_map(content)]

\* parse_sse_event with unwrap_or_default in place of `?`: a text that is no
\* JSON object yields the event of the empty map
parse_sse_event_lenient(text) ==
    LET parsed == from_str_map(text)
    IN  IF ~parsed.ok THEN Ok(SearchEvent(EmptyMap)) ELSE Ok(SearchEvent(parsed.v))

\* parse_sse_event keeping a poisoned flag: once a call has failed, the
\* calls after it fail too
parse_sse_event_sticky(text) ==
    LET parsed == from_str_map(text)
    IN  IF ~parsed.ok \/ \E i \in DOMAIN log : ~log[i].outcome.ok THEN ErrJson
        ELSE Ok(SearchEvent(parsed.v))

\* Parses an SSE event JSON string into a SearchEvent
parse_sse_event(text) ==
    LET parsed == from_str_map(text)
    IN  IF ~parsed.ok THEN ErrJson ELSE Ok(SearchEvent(parsed.v))

----------------------------------------------------------------------------
(* config.rs *)

SearchMode == {"Auto", "Pro", "Reasoning", "DeepResearch"}

\* the variants of Model that config.rs names
Model ==
    {"Sonar", "Gpt52", "Claude45Sonnet", "Grok41", "Gpt52Thinking",
     "Claude45SonnetThinking", "Gemini30Pro", "KimiK2Thinking", "Grok41Reasoning"}

NoToken == NoneStr

Token(s) == SomeStr(<<s>>)

NoModel == [some |-> FALSE, v |-> "Sonar"]

SomeModel(m) == [some |-> TRUE, v |-> m]

\* model_preference with one selector table for Pro and Reasoning alike
model_preference_any_mode(md, mdl) ==
    IF ~mdl.some THEN
        IF md = "Auto" THEN Token("turbo")
        ELSE IF md = "Pro" THEN Token("pplx_pro")
        ELSE IF md = "Reasoning" THEN Token("pplx_reasoning")
        ELSE Token("pplx_alpha")
    ELSE IF md \in {"Auto", "DeepResearch"} THEN NoToken
    ELSE IF mdl.v = "Sonar" THEN Token("experimental")
    ELSE IF mdl.v = "Gpt52" THEN Token("gpt52")
    ELSE IF mdl.v = "Claude45Sonnet" THEN Token("claude45sonnet")
    ELSE IF mdl.v = "Grok41" THEN Token("grok41nonreasoning")
    ELSE IF mdl.v = "Gpt52Thinking" THEN Token("gpt52_thinking")
    ELSE IF mdl.v = "Claude45SonnetThinking" THEN Token("claude45sonnetthinking")
    ELSE IF mdl.v = "Gemini30Pro" THEN Token("gemini30pro")
    ELSE IF mdl.v = "KimiK2Thinking" THEN Token("kimik2thinking")
    ELSE IF mdl.v = "Grok41Reasoning" THEN Token("grok41reasoning")
    ELSE NoToken

\* model_preference whose DeepResearch arm rejects every request, and whose
\* Auto arm answers the Pro default
model_preference_wrong_defaults(md, mdl) ==
    IF md = "Auto" THEN
        IF ~mdl.some THEN Token("pplx_pro") ELSE NoToken
    ELSE IF md = "Pro" THEN
        IF ~mdl.some THEN Token("pplx_pro")
        ELSE IF mdl.v \in {"Sonar", "Gpt52", "Claude45Sonnet", "Grok41"} THEN Token(mdl.v)
        ELSE NoToken
    ELSE IF md = "Reasoning" THEN
        IF ~mdl.some THEN Token("pplx_reasoning")
        ELSE IF mdl.v \in {"Gpt52Thinking", "Claude45SonnetThinking", "Gemini30Pro",
                           "KimiK2Thinking", "Grok41Reasoning"} THEN Token(mdl.v)
        ELSE NoToken
    ELSE NoToken

\* Returns the model preference string for the API payload
model_preference(md, mdl) ==
    IF md = "Auto" THEN
        IF ~mdl.some THEN Token("turbo") ELSE NoToken
    ELSE IF md = "Pro" THEN
        IF ~mdl.some THEN Token("pplx_pro")
        ELSE IF mdl.v = "Sonar" THEN Token("experimental")
        ELSE IF mdl.v = "Gpt52" THEN Token("gpt52")
        ELSE IF mdl.v = "Claude45Sonnet" THEN Token("claude45sonnet")
        ELSE IF mdl.v = "Grok41" THEN Token("grok41nonreasoning")
        ELSE NoToken
    ELSE IF md = "Reasoning" THEN
        IF ~mdl.some THEN Token("pplx_reasoning")
        ELSE IF mdl.v = "Gpt52Thinking" THEN Token("gpt52_thinking")
        ELSE IF mdl.v = "Claude45SonnetThinking" THEN Token("claude45sonnetthinking")
        ELSE IF mdl.v = "Gemini30Pro" THEN Token("gemini30pro")
        ELSE IF mdl.v = "KimiK2Thinking" THEN Token("kimik2thinking")
        ELSE IF mdl.v = "Grok41Reasoning" THEN Token("grok41reasoning")
        ELSE NoToken
    ELSE
        IF ~mdl.some THEN Token("pplx_alpha") ELSE NoToken

----------------------------------------------------------------------------
(* The event texts the caller receives, written as the tests of parse.rs  *)
(* write them: serde_json::json! values serialised by to_string.           *)

\* a string literal: the content escaped, between quotes
StrLit(c) == <<"q0">> \o EscapeAll(c) \o <<"q0">>

RECURSIVE Join(_)
Join(texts) ==
    IF texts = <<>> THEN <<>>
    ELSE IF Len(texts) = 1 THEN texts[1]
    ELSE texts[1] \o <<",">> \o Join(Tail(texts))

ArrLit(texts) == <<"[">> \o Join(texts) \o <<"]">>

Member(k, text) == StrLit(<<k>>) \o <<":">> \o text

ObjLit(members) == <<"{">> \o Join(members) \o <<"}">>

\* the answer payloads a FINAL step carries in content.answer
NestedChunks == ArrLit(<<ObjLit(<<Member("id", <<"1">>)>>)>>)

PayloadFull == ObjLit(<<Member("answer", StrLit(<<"Nested", "answer">>)), Member("chunks", NestedChunks)>>)

PayloadChunksOnly == ObjLit(<<Member("chunks", NestedChunks)>>)

PayloadAnswerOnly == ObjLit(<<Member("answer", StrLit(<<"Other">>)), Member("chunks", StrLit(<<"none">>))>>)

PayloadNumber == <<"2">>

PayloadGarbage == <<"not", "json">>

FinalStep(payload) ==
    ObjLit(<<Member("step_type", StrLit(<<"FINAL">>)),
             Member("content", ObjLit(<<Member("answer", StrLit(payload))>>))>>)

\* the elements of a "text" array
StepTexts ==
    { ObjLit(<<Member("step_type", StrLit(<<"SEARCH">>)), Member("content", ObjLit(<<>>))>>),
      FinalStep(PayloadFull),
      FinalStep(PayloadChunksOnly),
      FinalStep(PayloadAnswerOnly),
      FinalStep(PayloadNumber),
      FinalStep(PayloadGarbage),
      ObjLit(<<Member("step_type", StrLit(<<"FINAL">>))>>),
      ObjLit(<<Member("step_type", StrLit(<<"FINAL">>)),
               Member("content", ObjLit(<<Member("answer", <<"1">>)>>))>>) }

RECURSIVE SeqsUpTo(_, _)
SeqsUpTo(S, n) ==
    IF n = 0 THEN {<<>>}
    ELSE LET shorter == SeqsUpTo(S, n - 1)
         IN  shorter \cup {Append(q, x) : q \in shorter, x \in S}

StepArrays == {ArrLit(steps) : steps \in SeqsUpTo(StepTexts, MaxSteps)}

\* the members an event may carry under one key; <<>> stands for "key absent"
TextMembers ==
    {<<>>, Member("text", <<"1">>), Member("text", StrLit(<<"plain", "words">>)),
     Member("text", StrLit(<<"2">>)), Member("text", StrLit(StrLit(<<"FINAL">>)))}
    \cup {Member("text", a) : a \in StepArrays}
    \cup {Member("text", StrLit(a)) : a \in StepArrays}

AnswerMembers ==
    {<<>>, Member("answer", StrLit(<<"Top", "level", "answer">>)), Member("answer", <<"123">>)}

ChunksMembers ==
    {<<>>,
     Member("chunks", ArrLit(<<ObjLit(<<Member("source", StrLit(<<"web">>))>>), <<"2">>>>)),
     Member("chunks", StrLit(<<"none">>))}

BackendMembers ==
    {<<>>, Member("backend_uuid", StrLit(<<"abc-123">>)), Member("backend_uuid", <<"123">>)}

AttachmentsMembers ==
    {<<>>,
     Member("attachments", ArrLit(<<>>)),
     Member("attachments", ArrLit(<<StrLit(<<"url1">>), StrLit(<<"url2">>)>>)),
     Member("attachments", ArrLit(<<StrLit(<<"url2">>), <<"1">>, StrLit(<<"url1">>), <<"null">>>>)),
     Member("attachments", StrLit(<<"url1">>)),
     Member("attachments", ObjLit(<<Member("url1", StrLit(<<"url2">>))>>))}

ExtraMembers ==
    {<<>>, Member("extra_field", StrLit(<<"should", "be", "in", "raw">>)) \o <<",">> \o Member("another", <<"123">>)}

\* an object of the members that are present
Present(members) == SelectSeq(members, LAMBDA m : m # <<>>)

EventText(members) == ObjLit(Present(members))

\* events that exercise the answer/chunks extraction
ExtractionEvents ==
    {EventText(<<t, a, c>>) : t \in TextMembers, a \in AnswerMembers, c \in ChunksMembers}

\* events that exercise the remaining fields
FieldEvents ==
    {EventText(<<a, b, x, at, c, t>>) :
        a \in AnswerMembers, b \in BackendMembers, x \in ExtraMembers,
        at \in AttachmentsMembers, c \in {<<>>, Member("chunks", ArrLit(<<>>))},
        t \in {<<>>, Member("text", StrLit(ArrLit(<<FinalStep(PayloadFull)>>)))}}

\* an object that repeats a key
RepeatedKeyEvents ==
    {ObjLit(<<Member("answer", <<"1">>), Member("answer", StrLit(<<"Top">>))>>),
     ObjLit(<<Member("chunks", ArrLit(<<>>)), Member("extra_field", <<"1">>), Member("chunks", <<"null">>)>>)}

\* valid JSON texts that are not an object
NonObjectTexts ==
    {<<"null">>, <<"true">>, <<"123">>, StrLit(<<"answer">>), ArrLit(<<>>),
     ArrLit(<<ObjLit(<<Member("answer", StrLit(<<"Top">>))>>)>>),
     StrLit(ObjLit(<<Member("answer", StrLit(<<"Top">>))>>))}

DropLast(text) == SubSeq(text, 1, Len(text) - 1)

\* texts that are not JSON
MalformedTexts ==
    {<<>>, <<"not", "json">>, <<"{">>, <<"}">>, <<"q0">>, <<"q1">>,
     <<"{", "q0", "answer", "q0", "}">>,
     <<"{", "q0", "answer", "q0", ":", "}">>,
     <<"{", "q0", "answer", "q0", ":", "1", ",", "}">>,
     <<"{", "answer", ":", "1", "}">>,
     <<"{", "1", ":", "1", "}">>,
     <<"{", "q0", "answer", "q0", ":", "q0", "Top", "}">>,
     <<"{", "q0", "answer", "q0", ":", "q1", "Top", "q1", "}">>,
     <<"{", "q0", "chunks", "q0", ":", "[", "1", ",", "]", "}">>,
     <<"{", "q0", "chunks", "q0", ":", "[", "1", "2", "]", "}">>,
     <<"{", "q0", "chunks", "q0", ":", "[", "1", "}">>,
     <<"{", "}", "{", "}">>,
     <<"{", "}", "x">>}
    \cup {DropLast(e) : e \in FieldEvents}

Inputs ==
    ExtractionEvents \cup FieldEvents \cup RepeatedKeyEvents \cup NonObjectTexts
    \cup MalformedTexts

----------------------------------------------------------------------------
(* The caller: one invocation of one of the two components *)

NoResult == ErrJson

Init ==
    /\ pc = "call"
    /\ result = NoResult
    /\ preference = NoToken
    /\ inflight = <<>>
    /\ log = <<>>
    /\ \/ /\ op = "normalize"
          /\ json_str \in Inputs
          /\ mode = "Auto"
          /\ model = NoModel
       \/ /\ op = "resolve"
          /\ json_str = <<>>
          /\ mode \in SearchMode
          /\ model \in {NoModel} \cup {SomeModel(m) : m \in Model}

\* the caller passes one received line to parse_sse_event
Normalize ==
    /\ op = "normalize"
    /\ pc = "call"
    /\ result' = parse_sse_event(json_str)
    /\ pc' = "done"
    /\ UNCHANGED <<op, json_str, mode, model, preference, inflight, log>>

\* the caller asks model_preference for the token of its request
Resolve ==
    /\ op = "resolve"
    /\ pc = "call"
    /\ preference' = model_preference(mode, model)
    /\ pc' = "done"
    /\ UNCHANGED <<op, json_str, result, mode, model, inflight, log>>

Next == Normalize \/ Resolve

Spec == Init /\ [][Next]_vars

----------------------------------------------------------------------------
(* The caller's stream: threads that each pass received lines to          *)
(* parse_sse_event, one call at a time per thread                          *)

Threads == {"t1", "t2"}

Idle == [busy |-> FALSE, input |-> <<>>]

\* the lines that arrive on the stream
CallInputs ==
    {<<"not", "json">>,
     ObjLit(<<>>),
     ArrLit(<<>>),
     ObjLit(<<Member("answer", StrLit(<<"Hello", "world">>)),
              Member("chunks", ArrLit(<<ObjLit(<<Member("title", StrLit(<<"Source", "1">>))>>)>>))>>),
     ObjLit(<<Member("text", StrLit(ArrLit(<<FinalStep(PayloadFull)>>))),
              Member("some_field", StrLit(<<"value">>))>>)}

Started == Len(log) + Cardinality({t \in Threads : inflight[t].busy})

InitCalls ==
    /\ op = "normalize"
    /\ pc = "call"
    /\ json_str = <<>>
    /\ result = NoResult
    /\ mode = "Auto"
    /\ model = NoModel
    /\ preference = NoToken
    /\ inflight = [t \in Threads |-> Idle]
    /\ log = <<>>

\* thread t enters parse_sse_event with a received line
Begin(t) ==
    /\ ~inflight[t].busy
    /\ Started < MaxCalls
    /\ \E line \in CallInputs : inflight' = [inflight EXCEPT ![t] = [busy |-> TRUE, input |-> line]]
    /\ UNCHANGED <<op, pc, json_str, result, mode, model, preference, log>>

\* thread t's call returns
Return(t) ==
    /\ inflight[t].busy
    /\ log' = Append(log, [thread |-> t, input |-> inflight[t].input,
                           outcome |-> parse_sse_event(inflight[t].input)])
    /\ inflight' = [inflight EXCEPT ![t] = Idle]
    /\ UNCHANGED <<op, pc, json_str, result, mode, model, preference>>

NextCalls == \E t \in Threads : Begin(t) \/ Return(t)

SpecCalls == InitCalls /\ [][NextCalls]_vars

----------------------------------------------------------------------------
(* What the claims speak of, stated on the input and the returned event    *)

\* parse_sse_event has returned
Returned == op = "normalize" /\ pc = "done"

\* model_preference has returned
Resolved == op = "resolve" /\ pc = "done"

\* the input text is valid JSON
ValidJson == from_str_value(json_str).ok

\* the input text is a valid JSON object
ValidObject == ValidJson /\ from_str_value(json_str).v.t = "obj"

\* the value of the input text (an object when ValidObject)
InputValue == from_str_value(json_str).v

HasKey(v, w) == v.t = "obj" /\ Key(w) \in DOMAIN v.o

Field(v, w) == v.o[Key(w)]

\* field w of v if it is a string, else absent
StringField(v, w) ==
    IF HasKey(v, w) /\ Field(v, w).t = "str" THEN SomeStr(Field(v, w).s) ELSE NoneStr

\* field w of v if it is an array, else empty
ArrayField(v, w) ==
    IF HasKey(v, w) /\ Field(v, w).t = "arr" THEN Field(v, w).a ELSE <<>>

\* the text field is a string that parses as JSON
TextParses(v) ==
    HasKey(v, "text") /\ Field(v, "text").t = "str" /\ from_str_value(Field(v, "text").s).ok

\* the text value after the nested-string replacement
TextAfter(v) == IF TextParses(v) THEN from_str_value(Field(v, "text").s).v ELSE Field(v, "text")

TextIsArray(v) == HasKey(v, "text") /\ TextAfter(v).t = "arr"

\* the steps of the text array
Steps(v) == TextAfter(v).a

\* the positions of the FINAL steps among steps
FinalSteps(steps) ==
    {i \in 1..Len(steps) :
        HasKey(steps[i], "step_type") /\ Field(steps[i], "step_type") = String(<<"FINAL">>)}

FirstFinal(steps) == CHOOSE i \in FinalSteps(steps) : \A j \in FinalSteps(steps) : i <= j

\* the step carries a content.answer string that parses as JSON
HasPayload(step) ==
    /\ HasKey(step, "content")
    /\ HasKey(Field(step, "content"), "answer")
    /\ Field(Field(step, "content"), "answer").t = "str"
    /\ from_str_value(Field(Field(step, "content"), "answer").s).ok

PayloadOf(step) == from_str_value(Field(Field(step, "content"), "answer").s).v

\* the event's answer and chunks are those of the value src
TakenFrom(src) ==
    /\ result.event.answer = StringField(src, "answer")
    /\ result.event.chunks = ArrayField(src, "chunks")

\* structured extraction yields a result: the first FINAL step has a payload
StructuredYields(v) ==
    /\ TextIsArray(v)
    /\ LET steps == Steps(v)
       IN  FinalSteps(steps) # {} /\ HasPayload(steps[FirstFinal(steps)])

\* the payload of the first FINAL step
FirstPayload(v) == LET steps == Steps(v) IN PayloadOf(steps[FirstFinal(steps)])

----------------------------------------------------------------------------
(* Claims *)

\* C1: for every accepted input, the key set of raw is the key set of the
\* input object minus answer, chunks, backend_uuid and attachments.
C1_RawKeys ==
    (Returned /\ result.ok) =>
        DOMAIN result.event.raw =
            (DOMAIN InputValue.o) \ {<<"answer">>, <<"chunks">>, <<"backend_uuid">>, <<"attachments">>}

\* C1 witness: an event whose four extracted keys are all present,
\* backend_uuid and attachments with unextractable types, beside other keys.
C1_Witness ==
    /\ Returned /\ result.ok
    /\ \A w \in {"answer", "chunks", "backend_uuid", "attachments", "extra_field", "text"} :
           HasKey(InputValue, w)
    /\ Field(InputValue, "backend_uuid").t = "num"
    /\ Field(InputValue, "attachments").t = "str"
    /\ DOMAIN result.event.raw = {<<"extra_field">>, <<"another">>, <<"text">>}

\* C2 as stated: if the text array contains some FINAL step with a parseable
\* content.answer, answer and chunks are taken from such a step's payload.
C2_AnyFinalStep ==
    LET v == InputValue
    IN  (Returned /\ result.ok /\ TextIsArray(v)) =>
            LET steps == Steps(v)
                with_payload == {i \in FinalSteps(steps) : HasPayload(steps[i])}
            IN  with_payload # {} => \E i \in with_payload : TakenFrom(PayloadOf(steps[i]))

\* C2 amended: if the FIRST FINAL step of the text array has a parseable
\* content.answer, answer and chunks are taken from that payload only, never
\* from the top-level fields.
C2_FirstFinalStep ==
    LET v == InputValue
    IN  (Returned /\ result.ok /\ StructuredYields(v)) => TakenFrom(FirstPayload(v))

\* C2 witness: the payload lacks an answer, the event has a top-level answer
\* string, and the returned answer is absent.
C2_Witness ==
    LET v == InputValue
    IN  /\ Returned /\ result.ok /\ StructuredYields(v)
        /\ ~HasKey(FirstPayload(v), "answer")
        /\ StringField(v, "answer").some
        /\ ArrayField(v, "chunks") # <<>>
        /\ ~result.event.answer.some
        /\ result.event.chunks # ArrayField(v, "chunks")

\* C3 as stated: the call fails exactly when the input is not valid JSON.
C3_FailsIffInvalidJson == Returned => (result.ok <=> ValidJson)

\* C3 amended: the call fails exactly when the input is not a valid JSON
\* object, and a failed call carries no event.
C3_FailsIffNotObject ==
    Returned => /\ result.ok <=> ValidObject
                /\ ~result.ok => result = ErrJson

\* C3 witness: a valid JSON text that is not an object is rejected.
C3_Witness == Returned /\ ValidJson /\ ~ValidObject /\ ~result.ok

\* C4: when structured extraction yields no result, answer is the top-level
\* answer if a string, and chunks the top-level chunks if an array.
C4_Fallback ==
    LET v == InputValue
    IN  (Returned /\ result.ok /\ ~StructuredYields(v)) => TakenFrom(v)

\* C4 witness: the FINAL step's payload does not parse and the top-level
\* values are returned.
C4_Witness ==
    LET v == InputValue
    IN  /\ Returned /\ result.ok
        /\ TextIsArray(v) /\ FinalSteps(Steps(v)) # {}
        /\ ~StructuredYields(v)
        /\ result.event.answer = SomeStr(<<"Top", "level", "answer">>)
        /\ Len(result.event.chunks) = 2

\* C5: with a selector, model_preference returns a token exactly when the
\* selector belongs to the mode's family.
Family(md) ==
    IF md = "Pro" THEN {"Sonar", "Gpt52", "Claude45Sonnet", "Grok41"}
    ELSE IF md = "Reasoning"
         THEN {"Gpt52Thinking", "Claude45SonnetThinking", "Gemini30Pro", "KimiK2Thinking",
               "Grok41Reasoning"}
    ELSE {}

C5_FamilyOnly == (Resolved /\ model.some) => (preference.some <=> model.v \in Family(mode))

\* C5 witness: a Reasoning selector under Pro is rejected.
C5_Witness == Resolved /\ mode = "Pro" /\ model = SomeModel("Gpt52Thinking") /\ ~preference.some

\* C6: without a selector every mode resolves to its default token.
DefaultToken(md) ==
    IF md = "Auto" THEN "turbo"
    ELSE IF md = "Pro" THEN "pplx_pro"
    ELSE IF md = "Reasoning" THEN "pplx_reasoning"
    ELSE "pplx_alpha"

C6_Defaults == (Resolved /\ ~model.some) => preference = SomeStr(<<DefaultToken(mode)>>)

\* C6 witness: DeepResearch without a selector resolved.
C6_Witness == Resolved /\ ~model.some /\ mode = "DeepResearch" /\ preference.some

C8_TextField ==
    LET v == InputValue
    IN  (Returned /\ ValidObject /\ HasKey(v, "text")) =>
            /\ result.ok
            /\ <<"text">> \in DOMAIN result.event.raw
            /\ TextParses(v) =>
                  /\ result.event.raw[<<"text">>] = from_str_value(Field(v, "text").s).v
                  /\ result.event.raw[<<"text">>] # Field(v, "text")
                  /\ StructuredYields(v) => TakenFrom(FirstPayload(v))
            /\ ~TextParses(v) => result.event.raw[<<"text">>] = Field(v, "text")

\* C8 witness: a string-encoded step array was replaced and its FINAL step
\* was used.
C8_Witness ==
    /\ Returned /\ result.ok
    /\ TextParses(InputValue)
    /\ result.event.raw[<<"text">>].t = "arr"
    /\ result.event.answer = SomeStr(<<"Nested", "answer">>)

\* C9: attachments is the string elements of the top-level attachments array
\* in order, empty when it is absent or no array; backend_uuid is the
\* top-level backend_uuid if a string.
StringElements(arr) ==
    LET strs == SelectSeq(arr, LAMBDA v : v.t = "str")
    IN  [i \in 1..Len(strs) |-> strs[i].s]

C9_Attachments ==
    (Returned /\ result.ok) =>
        /\ result.event.attachments = StringElements(ArrayField(InputValue, "attachments"))
        /\ result.event.backend_uuid = StringField(InputValue, "backend_uuid")

\* C9 witness: non-string elements were dropped and the order kept.
C9_Witness ==
    /\ Returned /\ result.ok
    /\ Len(ArrayField(InputValue, "attachments")) = 4
    /\ result.event.attachments = <<<<"url2">>, <<"url1">>>>
    /\ result.event.backend_uuid = SomeStr(<<"abc-123">>)

\* C10: when the first FINAL step has no usable payload, the top-level
\* answer and chunks are returned, whatever later FINAL steps carry.
C10_FirstFinalOnly ==
    LET v == InputValue
    IN  (Returned /\ result.ok /\ TextIsArray(v)) =>
            LET steps == Steps(v)
            IN  (FinalSteps(steps) # {} /\ ~HasPayload(steps[FirstFinal(steps)]))
                    => TakenFrom(v)

\* C10 witness: a later FINAL step carries a parseable payload with an
\* answer, and the top-level answer is returned.
C10_Witness ==
    LET v == InputValue
    IN  /\ Returned /\ result.ok /\ TextIsArray(v)
        /\ LET steps == Steps(v)
           IN  /\ \E i \in FinalSteps(steps) :
                      /\ i > FirstFinal(steps)
                      /\ HasPayload(steps[i])
                      /\ StringField(PayloadOf(steps[i]), "answer").some
               /\ ~HasPayload(steps[FirstFinal(steps)])
        /\ result.event.answer = SomeStr(<<"Top", "level", "answer">>)

====
